---- MODULE Spec2Model ----
(***************************************************************************)
(* Model of the moment_clone coaching pipeline: the Inngest function       *)
(* cooking_pipeline (pipeline/functions.py), the stage functions it calls  *)
(* (pipeline/stages/*.py) and the upload endpoint that emits its trigger   *)
(* event (backend/routers/sessions.py).                                    *)
(*                                                                         *)
(* Engine behaviour assumed of Inngest (external service):                 *)
(*   - every delivered "video/uploaded" event starts one function run;     *)
(*     events may be delivered any number of times and by any producer;    *)
(*   - a step (ctx.step.run) executes its callable while holding the       *)
(*     concurrency slot of the run's key (event.data.user_id, limit 1);    *)
(*     between two steps a run holds no slot;                              *)
(*   - a step whose callable raises is re-executed by the engine some      *)
(*     number of times (retries=4 at most); only when the attempts are     *)
(*     exhausted does the error reach the handler's code around            *)
(*     ctx.step.run. The model leaves the number of attempts open.         *)
(***************************************************************************)
EXTENDS Integers, Sequences, FiniteSets, TLC

\* ------------------------------------------------------------------ bounds
MaxRuns == 2
\* message counts are tracked up to this number ("this many or more")
MaxMessages == 2

\* --------------------------------------------------------------- universe
Runs == 1..MaxRuns
Sessions == {1, 2}
Users == {1, 2}
\* a session id for which no row exists
MissingSessionId == 3
\* CookingSession.user_id of the rows in the database
session_user_id == (1 :> 1) @@ (2 :> 1)
\* CookingSession.voice_memo_url is set (truthy) for these rows
voice_memo_url == (1 :> TRUE) @@ (2 :> FALSE)

\* ------------------------------------------------------- event payloads
\* A JSON value of event.data, as Python sees it after decoding.
IntPayload(n) == [kind |-> "int", val |-> n]
NonePayload == [kind |-> "none", val |-> 0]
StrPayload == [kind |-> "str", val |-> 0]
\* JSON true decodes to Python True, which compares equal to 1
BoolPayload == [kind |-> "bool", val |-> 1]

Event(sid, uid) == [session_id |-> sid, user_id |-> uid]

\* what send_video_uploaded(session_id, user_id) emits for row s
UploadedEvent(s) == Event(IntPayload(s), IntPayload(session_user_id[s]))

\* the events a producer may deliver: the well-formed ones (re-delivery),
\* one naming another user, one naming no row with a JSON true as user,
\* and the malformed ones
DeliveredEvents ==
  {UploadedEvent(s) : s \in Sessions}
    \cup {Event(IntPayload(1), IntPayload(2)),
          Event(IntPayload(MissingSessionId), BoolPayload),
          Event(NonePayload, IntPayload(1)),
          Event(StrPayload, IntPayload(1)),
          Event(IntPayload(1), NonePayload),
          Event(IntPayload(1), StrPayload)}

NoEvent == [session_id |-> NonePayload, user_id |-> NonePayload]

\* isinstance(v, int): bool is a subclass of int in Python
IsInstanceInt(v) == v.kind \in {"int", "bool"}

\* the two payload checks at the top of cooking_pipeline both pass
ValidPayload(e) == IsInstanceInt(e.session_id) /\ IsInstanceInt(e.user_id)

\* where the handler stands after validating: at the gate step, or returned
AfterValidation(e) == IF ValidPayload(e) THEN "gate" ELSE "returned"

\* ------------------------------------------------------------ vocabulary
Statuses ==
  {"pending_upload", "uploaded", "processing", "text_ready", "completed", "failed"}
StepOrder == <<"s0", "s1", "s2", "s3a", "s3b", "s4", "mc">>
AtomicStages == {"s0", "s1", "s3b"}
\* the positions at which a stage has not written anything yet
StageEntry == AtomicStages \cup {"s2", "s4"}
Stage3aPcs == {"s3a_run", "s3a_locked", "s3a_ls", "s3a_sess"}
\* the positions at which a blocking call to an external service is under way
ExternalCallPcs == {"s3a_run"}
MessageKinds == {"coaching_text", "raw_video", "coaching_video"}
NoneVal == "<None>"
SecondaryError == "mark-failed: db error"

VARIABLES
  status,          \* CookingSession.status per row
  pipeline_error,  \* CookingSession.pipeline_error per row
  outputs,         \* per row, the stage-output fields that are populated
  rowlock,         \* per row, the run holding its SELECT ... FOR UPDATE lock (0: none)
  lslock,          \* per user, the run holding the LearnerState row lock (0: none)
  session_summaries, \* per user, the session ids of LearnerState.session_summaries
  learner_rows,    \* per user, the number of LearnerState rows
  messages,        \* per session and kind, the number of Message rows
  pc,              \* per run, position in cooking_pipeline
  ev,              \* per run, ctx.event.data
  seen,            \* per run, the status the gate read under the lock
  gateRes,         \* per run, the memoized result of check-and-set-processing
  done,            \* per run, the steps that completed successfully, in order
  wrote,           \* per run, the stage-output fields this run has written
  exc,             \* per run, the exception caught at `except Exception as exc`
  failedAt,        \* per run, the step whose exception was caught
  markFailed,      \* per run, outcome of the mark-failed step
  propagated,      \* per run, the exception that left the handler
  rival,           \* per run, the run whose gate call held the row lock, having
                   \* read "uploaded", when this run's gate call blocked (0: none)
  video_analysis,  \* CookingSession.video_analysis of session 1 (a dict)
  narration_script, \* CookingSession.narration_script of session 1 (a dict)
  analysis_history, \* the results of the executions of stage 1 that returned
  stage_ret,       \* the outcome of the latest stage-function call
  memo,            \* voice_memo_url, voice_transcript and structured_input of
                   \* session 1
  memo_ret,        \* the latest call among the memo endpoints and stage 0
  pending_gcs_path, \* CookingSession.pending_gcs_path of session 1
  raw_video_url,   \* CookingSession.raw_video_url of session 1
  confirm_events,  \* "video/uploaded" events emitted by confirm-upload for
                   \* session 1
  http_ret,        \* the latest call among the upload endpoints
  created,         \* per dish, the session_number of the committed
                   \* CookingSession rows of one user, in insertion order
  req,             \* per create-session request, its position and outcome
  webhook_events,  \* the committed WebhookEvent ids
  accounts,        \* the committed User, LearnerState and ChatRoom rows of
                   \* one Clerk user
  delivery,        \* per webhook delivery, its position and outcome
  va,              \* stage 1 and the file it uploads to the AI file service
  ls,              \* the LearnerState row of one user, by value
  session_coaching, \* per session, CookingSession.coaching_text by value
  ex,              \* per execution of stage 3a, its position and its inputs
  ls_holder,       \* the execution holding the LearnerState row lock (0: none)
  contributed      \* per session, the diagnosis with which it changed
                   \* recurring_mistakes, the number of its changes and the
                   \* number of its committed LearnerState writes

vars == <<status, pipeline_error, outputs, rowlock, lslock, session_summaries,
          learner_rows, messages, pc, ev,
          seen, gateRes, done, wrote, exc, failedAt, markFailed,
          propagated, rival, video_analysis, narration_script,
          analysis_history, stage_ret, memo, memo_ret, pending_gcs_path,
          raw_video_url, confirm_events, http_ret, created, req,
          webhook_events, accounts, delivery, va, ls, session_coaching, ex,
          ls_holder, contributed>>

dbVars == <<status, pipeline_error, outputs, session_summaries, learner_rows,
           messages>>
ghostVars == <<exc, failedAt, markFailed, propagated, rival>>
uploadVars == <<pending_gcs_path, raw_video_url, confirm_events, http_ret>>
createVars == <<created, req>>
webhookVars == <<webhook_events, accounts, delivery>>
\* the state of the endpoints, followed in their own specifications only
learnerVars == <<ls, session_coaching, ex, ls_holder, contributed>>
extraVars == <<va, learnerVars>>
apiVars == <<memo, memo_ret, uploadVars, createVars, webhookVars, extraVars>>
\* the values of the stage outputs, followed in StageSpec only
stageVars == <<video_analysis, narration_script, analysis_history, stage_ret,
               apiVars>>
runVars == <<pc, ev, seen, gateRes, done, wrote>>

\* ------------------------------------------------------------- helpers
\* the row addressed by `CookingSession.id == session_id`
Row(r) == ev[r].session_id.val
HasRow(r) == Row(r) \in Sessions

\* Inngest concurrency key "event.data.user_id"
ConcurrencyKey(r) == ev[r].user_id

\* a step of run r is executing
InStep(r) ==
  pc[r] \in {"gate_wait", "gate_locked", "s2_insert", "s4_notified"} \cup Stage3aPcs

\* concurrency=[Concurrency(key=..., limit=1)]: the slot of r's key is free
SlotFree(r) ==
  \A q \in Runs \ {r} : InStep(q) => ConcurrencyKey(q) # ConcurrencyKey(r)

\* the lowest unused run
FreeRun == CHOOSE r \in Runs : pc[r] = "idle" /\ \A q \in Runs : q < r => pc[q] # "idle"

\* a writer's UPDATE blocks while another transaction holds the row lock
RowWritable(s) == rowlock[s] = 0

\* a plain SELECT: no row lock is taken
LockRowNoForUpdate(lock, s, r) == lock

\* `.with_for_update()`: the SELECT takes the row lock
LockRow(lock, s, r) == [lock EXCEPT ![s] = r]

\* the snapshot read as a SELECT ... FOR UPDATE in a transaction left open
SelectSnapshotForUpdate(lock, u, r) == [lock EXCEPT ![u] = r]

\* the snapshot read of stage 3a: a plain SELECT in a session that is closed
\* before the LLM call, so no lock is taken
SelectSnapshot(lock, u, r) == lock

\* leaving a `with DBSession(...)` block, by commit or by an exception:
\* the locks of r's transaction are released
ReleaseLocks(lock, r) == [x \in DOMAIN lock |-> IF lock[x] = r THEN 0 ELSE lock[x]]

\* a guard that rejects only finished sessions
RunnableUnlessCompleted(st) == st # "completed"

\* `cooking_session.status not in ("uploaded", "failed")` negated
Runnable(st) == st \in {"uploaded", "failed"}

\* a try block that leaves out the step after `step`
NextStepSkip(step) ==
  LET i == CHOOSE k \in 1..Len(StepOrder) : StepOrder[k] = step
  IN IF i = Len(StepOrder) THEN "returned"
     ELSE IF i + 2 <= Len(StepOrder) THEN StepOrder[i + 2] ELSE StepOrder[i + 1]

\* the step after `step` in the try block of cooking_pipeline
NextStep(step) ==
  LET i == CHOOSE k \in 1..Len(StepOrder) : StepOrder[k] = step
  IN IF i = Len(StepOrder) THEN "returned" ELSE StepOrder[i + 1]

\* a stage 4 that returns without persisting the path of its video
StageFieldsNoPath(step, s) ==
  CASE step = "s0" -> IF voice_memo_url[s]
                      THEN {"voice_transcript", "structured_input"} ELSE {}
    [] step = "s1" -> {"video_analysis"}
    [] step = "s3a" -> {"coaching_text"}
    [] step = "s3b" -> {"narration_script"}
    [] OTHER -> {}

\* the Session fields a stage persists with update_session_fields
StageFields(step, s) ==
  CASE step = "s0" -> IF voice_memo_url[s]
                      THEN {"voice_transcript", "structured_input"} ELSE {}
    [] step = "s1" -> {"video_analysis"}
    [] step = "s2" -> {}
    [] step = "s3a" -> {"coaching_text"}
    [] step = "s3b" -> {"narration_script"}
    [] step = "s4" -> {"coaching_video_gcs_path"}

\* a stage 4 that passes status="completed" to its update
StageStatusCompleted(step, st) ==
  IF step = "s3a" THEN "text_ready"
  ELSE IF step = "s4" THEN "completed" ELSE st

\* CookingSession.status after the stage's update_session_fields: stage 3a
\* passes status="text_ready", the other stages pass no status
StageStatus(step, st) == IF step = "s3a" THEN "text_ready" ELSE st

\* str(exc) of the exception a step raises
StageError(step) == "error in " \o step

\* `error` stored as passed
ErrorTextRaw(error) == error

\* `error or ""`
ErrorText(error) == IF error = NoneVal \/ error = "" THEN "" ELSE error

\* _set_terminal_status_sync: the two assignments
TerminalStatus(st, s, new_status) == [st EXCEPT ![s] = new_status]

\* pipeline_error left as it was
TerminalErrorKeep(pe, s, error) == pe

\* _set_terminal_status_sync: `cooking_session.pipeline_error = error or ""`
TerminalError(pe, s, error) == [pe EXCEPT ![s] = ErrorText(error)]

\* `raise` placed inside the inner except block would re-raise its exception
ReraiseSecondary(original, secondary) == secondary

\* the bare `raise` at the end of the except block re-raises the exception
\* being handled, whatever the nested try caught
Reraise(original, secondary) == original

\* LearnerState.user_id without `unique=True`: an INSERT never conflicts
InsertConflictsNever(rows, u) == FALSE

\* `unique=True` on LearnerState.user_id: an INSERT for a user who has a row
\* raises IntegrityError
InsertConflicts(rows, u) == rows[u] > 0

\* the LearnerState rows after `db.add(LearnerState(user_id=u))` is flushed
InsertLearnerState(rows, u) ==
  IF InsertConflicts(rows, u) THEN rows ELSE [rows EXCEPT ![u] = @ + 1]

\* a post that inserts nothing
PostMessageNone(msgs, s, kind) == msgs

\* post_message: `db.add(Message(...))`, one more row of this kind for the
\* session
PostMessage(msgs, s, kind) ==
  [msgs EXCEPT ![s][kind] = IF @ < MaxMessages THEN @ + 1 ELSE @]

\* a gate that also resets pipeline_error when it lets the run proceed
GateErrorCleared(pe, s) == [pe EXCEPT ![s] = ""]

\* _check_and_set_processing_sync assigns `status` and nothing else:
\* pipeline_error after the gate's commit
GateError(pe, s) == pe

\* an append without the `already_processed` guard
AppendSummaryBlind(summaries, s) == Append(summaries, s)

\* guarded append of a session summary
AppendSummary(summaries, s) ==
  IF \E i \in 1..Len(summaries) : summaries[i] = s
  THEN summaries ELSE Append(summaries, s)

\* ---------------------------------------------------------------- Init
\* a dict without keys; also stands for a JSON column that is NULL
EmptyDict == [k \in {} |-> ""]

\* no stage function has been called
NoCall ==
  [op |-> "none", raised |-> FALSE, response |-> EmptyDict, value |-> EmptyDict,
   key_moment |-> [kind |-> "missing", val |-> 0], duration |-> 0, start |-> 0]

\* the memo fields of a new CookingSession row
NoMemo == [voice_memo_url |-> NoneVal, voice_transcript |-> "",
           structured_input |-> "null"]

MemoCall(op, before, raised, transcript, structured, wrote_fields) ==
  [op |-> op, before |-> before, raised |-> raised,
   voice_transcript |-> transcript, structured_input |-> structured,
   wrote |-> wrote_fields]

\* concurrent create-session requests of one user
MaxRequests == 5
Requests == 1..MaxRequests
\* a dish of the catalogue limited to three sessions, and the free-choice dish
Dishes == {"regular", "free"}
IdleRequest == [pc |-> "idle", dish |-> "", session_number |-> 0, code |-> 0]

\* deliveries of Clerk webhooks about one Clerk user
MaxDeliveries == 3
Deliveries == 1..MaxDeliveries
IdleDelivery ==
  [pc |-> "idle", svix_id |-> "", valid |-> FALSE, event_flushed |-> FALSE,
   user_flushed |-> FALSE, created_user |-> FALSE, ret |-> ""]
NoAccount == [users |-> 0, learner_states |-> 0, chat_rooms |-> 0]

\* executions of stage 1 (the engine re-executes a step that raised)
MaxAnalysisRuns == 3
\* `for _ in range(30)`: the polls of the remote file's state
PollRetries == 30
IdleAnalysis ==
  [pc |-> "start", polls |-> 0, uploaded |-> FALSE, deletes |-> 0,
   outcome |-> "", runs |-> 1, orphans |-> 0]

\* executions of stage 3a for the sessions of one user
MaxLearnerExecs == 3
Execs == 1..MaxLearnerExecs
\* CookingSession.session_number of the rows
session_numbers == (1 :> 1) @@ (2 :> 2)
\* LearnerState(user_id=...): the JSON columns default to None, read as []
NewLearnerState ==
  [session_summaries |-> <<>>, recurring_mistakes |-> <<>>,
   skills_developing |-> <<>>, skills_acquired |-> <<>>]
NoCoaching == [mondaiten |-> "", skill |-> ""]
\* the coaching texts the model may return, with all four keys
CoachingResults ==
  {[mondaiten |-> "m1", skill |-> "k1"], [mondaiten |-> "m2", skill |-> "k2"]}
\* video_analysis["diagnosis"] of a session; "" when absent
Diagnoses == {"", "d1"}
IdleExec ==
  [pc |-> "idle", session |-> 0, result |-> NoCoaching, diagnosis |-> "",
   ls_snapshot |-> NewLearnerState, row |-> NewLearnerState]

HttpCall(op, path, code) == [op |-> op, path |-> path, code |-> code]

InitApiVars ==
  /\ pending_gcs_path = NoneVal
  /\ raw_video_url = ""
  /\ confirm_events = 0
  /\ http_ret = HttpCall("none", "", 0)
  /\ created = [d \in Dishes |-> <<>>]
  /\ req = [q \in Requests |-> IdleRequest]
  /\ webhook_events = {}
  /\ accounts = NoAccount
  /\ delivery = [d \in Deliveries |-> IdleDelivery]
  /\ va = IdleAnalysis
  /\ ls = NewLearnerState
  /\ session_coaching = [s \in Sessions |-> NoCoaching]
  /\ ex = [e \in Execs |-> IdleExec]
  /\ ls_holder = 0
  /\ contributed = [s \in Sessions |-> [text |-> "", changes |-> 0, writes |-> 0]]
  /\ memo = NoMemo
  /\ memo_ret = MemoCall("none", NoMemo, FALSE, "", "null", FALSE)

InitStageVars ==
  /\ InitApiVars
  /\ video_analysis = EmptyDict
  /\ narration_script = EmptyDict
  /\ analysis_history = <<>>
  /\ stage_ret = NoCall

Init ==
  /\ InitStageVars
  /\ status = [s \in Sessions |-> "pending_upload"]
  /\ pipeline_error = [s \in Sessions |-> ""]
  /\ outputs = [s \in Sessions |-> {}]
  /\ rowlock = [s \in Sessions |-> 0]
  /\ lslock = [u \in Users |-> 0]
  /\ session_summaries = [u \in Users |-> <<>>]
  /\ learner_rows = [u \in Users |-> 0]
  /\ messages = [s \in Sessions |-> [k \in MessageKinds |-> 0]]
  /\ pc = [r \in Runs |-> "idle"]
  /\ ev = [r \in Runs |-> NoEvent]
  /\ seen = [r \in Runs |-> "none"]
  /\ gateRes = [r \in Runs |-> "none"]
  /\ done = [r \in Runs |-> <<>>]
  /\ wrote = [r \in Runs |-> {}]
  /\ exc = [r \in Runs |-> NoneVal]
  /\ failedAt = [r \in Runs |-> "none"]
  /\ markFailed = [r \in Runs |-> "none"]
  /\ propagated = [r \in Runs |-> NoneVal]
  /\ rival = [r \in Runs |-> 0]

\* ------------------------------------------------------- trigger ingress
\* POST /api/sessions/{id}/upload/ : sets status "uploaded" whatever the
\* current status is and commits, then send_video_uploaded(id, user_id);
\* the run the emitted event starts is DeliverEvent(UploadedEvent(s))
UploadVideo(s) ==
  /\ RowWritable(s)
  /\ status' = [status EXCEPT ![s] = "uploaded"]
  /\ UNCHANGED <<messages, learner_rows, pipeline_error, outputs, rowlock, session_summaries, pc, ev,
                 seen, gateRes, done, wrote, ghostVars>>
  /\ UNCHANGED <<lslock, stageVars>>

\* a "video/uploaded" event (emitted by the upload endpoint, re-delivered
\* by the engine, or sent by any other producer) starts a run; the handler
\* validates the payload before its first step
DeliverEvent(e) ==
  /\ \E r \in Runs : pc[r] = "idle"
  /\ pc' = [pc EXCEPT ![FreeRun] = AfterValidation(e)]
  /\ ev' = [ev EXCEPT ![FreeRun] = e]
  /\ UNCHANGED <<dbVars, rowlock, seen, gateRes, done, wrote, ghostVars>>
  /\ UNCHANGED <<lslock, stageVars>>

\* ------------------------------------------------------- cooking_pipeline

\* the gate calls blocked in SELECT ... FOR UPDATE on row s
Waiters(s) == {q \in Runs : pc[q] = "gate_wait" /\ Row(q) = s}

\* check-and-set-processing, first half: SELECT ... FOR UPDATE returns
GateSelect(r) ==
  /\ pc[r] = "gate"
  /\ SlotFree(r)
  /\ HasRow(r) => RowWritable(Row(r))
  /\ seen' = [seen EXCEPT ![r] = IF HasRow(r) THEN status[Row(r)] ELSE "none"]
  /\ rowlock' = IF HasRow(r) THEN LockRow(rowlock, Row(r), r) ELSE rowlock
  /\ pc' = [pc EXCEPT ![r] = "gate_locked"]
  /\ UNCHANGED <<dbVars, ev, gateRes, done, wrote, ghostVars>>
  /\ UNCHANGED <<lslock, stageVars>>

\* check-and-set-processing, first half: the row is locked by another
\* gate call, so SELECT ... FOR UPDATE blocks
GateBlock(r) ==
  /\ pc[r] = "gate"
  /\ SlotFree(r)
  /\ HasRow(r)
  /\ ~RowWritable(Row(r))
  /\ pc' = [pc EXCEPT ![r] = "gate_wait"]
  /\ rival' = [rival EXCEPT ![r] =
                 IF seen[rowlock[Row(r)]] = "uploaded" THEN rowlock[Row(r)] ELSE 0]
  /\ UNCHANGED <<dbVars, rowlock, ev, seen, gateRes, done, wrote,
                 exc, failedAt, markFailed, propagated>>
  /\ UNCHANGED <<lslock, stageVars>>

\* check-and-set-processing, second half: the two early returns, or the
\* write and the commit; leaving the `with` block releases the lock, and a
\* blocked SELECT ... FOR UPDATE (w) then returns the committed row
GateFinish(r) ==
  /\ pc[r] = "gate_locked"
  /\ \E w \in (IF HasRow(r) /\ Waiters(Row(r)) # {} THEN Waiters(Row(r)) ELSE {0}) :
       LET proceed == seen[r] # "none" /\ Runnable(seen[r])
           status2 == IF proceed THEN [status EXCEPT ![Row(r)] = "processing"]
                      ELSE status
           pc2 == [pc EXCEPT ![r] = IF proceed THEN StepOrder[1] ELSE "returned"]
           released == [s \in Sessions |-> IF rowlock[s] = r THEN 0 ELSE rowlock[s]]
       IN /\ status' = status2
          /\ pipeline_error' = IF proceed THEN GateError(pipeline_error, Row(r))
                               ELSE pipeline_error
          /\ gateRes' = [gateRes EXCEPT ![r] = IF proceed THEN "true" ELSE "false"]
          /\ done' = [done EXCEPT ![r] = IF proceed THEN Append(@, "gate") ELSE @]
          /\ IF w = 0
             THEN /\ pc' = pc2
                  /\ rowlock' = released
                  /\ seen' = [seen EXCEPT ![r] = "none"]
             ELSE /\ pc' = [pc2 EXCEPT ![w] = "gate_locked"]
                  /\ rowlock' = LockRow(released, Row(r), w)
                  /\ seen' = [seen EXCEPT ![r] = "none", ![w] = status2[Row(r)]]
  /\ UNCHANGED <<messages, learner_rows, outputs, session_summaries, ev,
                 wrote, ghostVars>>
  /\ UNCHANGED <<lslock, stageVars>>

\* a stage whose only write is its final update_session_fields succeeds
StageOk(r) ==
  /\ pc[r] \in AtomicStages
  /\ SlotFree(r)
  /\ StageFields(pc[r], Row(r)) # {} => RowWritable(Row(r))
  /\ outputs' = [outputs EXCEPT ![Row(r)] = @ \cup StageFields(pc[r], Row(r))]
  /\ wrote' = [wrote EXCEPT ![r] = @ \cup StageFields(pc[r], Row(r))]
  /\ done' = [done EXCEPT ![r] = Append(@, pc[r])]
  /\ status' = [status EXCEPT ![Row(r)] = StageStatus(pc[r], @)]
  /\ pc' = [pc EXCEPT ![r] = NextStep(pc[r])]
  /\ UNCHANGED <<messages, learner_rows, pipeline_error, rowlock, session_summaries, ev, seen,
                 gateRes, ghostVars>>
  /\ UNCHANGED <<lslock, stageVars>>

\* such a stage raises on every attempt: nothing was written, and the
\* error reaches `except Exception as exc`
StageFail(r) ==
  /\ pc[r] \in StageEntry
  /\ SlotFree(r)
  /\ exc' = [exc EXCEPT ![r] = StageError(pc[r])]
  /\ failedAt' = [failedAt EXCEPT ![r] = pc[r]]
  /\ pc' = [pc EXCEPT ![r] = "except"]
  /\ UNCHANGED <<dbVars, rowlock, ev, seen, gateRes, done, wrote,
                 markFailed, propagated, rival>>
  /\ UNCHANGED <<lslock, stageVars>>

\* stage 2 up to the SELECT of get_or_create_learner_state: with a row the
\* stage returns, without one it goes on to insert
Stage2Select(r) ==
  /\ pc[r] = "s2"
  /\ SlotFree(r)
  /\ IF learner_rows[session_user_id[Row(r)]] > 0
     THEN /\ done' = [done EXCEPT ![r] = Append(@, "s2")]
          /\ pc' = [pc EXCEPT ![r] = NextStep("s2")]
     ELSE /\ pc' = [pc EXCEPT ![r] = "s2_insert"]
          /\ UNCHANGED done
  /\ UNCHANGED <<dbVars, rowlock, ev, seen, gateRes, wrote, ghostVars>>
  /\ UNCHANGED <<lslock, stageVars>>

\* get_or_create_learner_state after a SELECT that found no row: INSERT and
\* commit; on IntegrityError roll back and SELECT again, re-raising only if
\* there is still no row
Stage2Insert(r) ==
  /\ pc[r] = "s2_insert"
  /\ learner_rows' = InsertLearnerState(learner_rows, session_user_id[Row(r)])
  /\ IF InsertConflicts(learner_rows, session_user_id[Row(r)])
        /\ learner_rows[session_user_id[Row(r)]] = 0
     THEN /\ exc' = [exc EXCEPT ![r] = StageError("s2")]
          /\ failedAt' = [failedAt EXCEPT ![r] = "s2"]
          /\ pc' = [pc EXCEPT ![r] = "except"]
          /\ UNCHANGED done
     ELSE /\ done' = [done EXCEPT ![r] = Append(@, "s2")]
          /\ pc' = [pc EXCEPT ![r] = NextStep("s2")]
          /\ UNCHANGED <<exc, failedAt>>
  /\ UNCHANGED <<messages, status, pipeline_error, outputs, session_summaries, rowlock,
                 ev, seen, gateRes, wrote, markFailed, propagated, rival>>
  /\ UNCHANGED <<lslock, stageVars>>

\* stage 3a starts: loads the session, snapshots LearnerState, calls the LLM
Stage3aBegin(r) ==
  /\ pc[r] = "s3a"
  /\ SlotFree(r)
  /\ lslock' = SelectSnapshot(lslock, session_user_id[Row(r)], r)
  /\ pc' = [pc EXCEPT ![r] = "s3a_run"]
  /\ UNCHANGED <<dbVars, rowlock, ev, seen, gateRes, done, wrote, ghostVars>>
  /\ UNCHANGED stageVars

\* stage 3a, step 3 begins: the LLM has answered with all required keys, and
\* SELECT ... FOR UPDATE returns the LearnerState row, locked; it blocks
\* while another transaction holds the row
Stage3aLock(r) ==
  /\ pc[r] = "s3a_run"
  /\ lslock[session_user_id[Row(r)]] = 0
  /\ lslock' = IF learner_rows[session_user_id[Row(r)]] > 0
               THEN [lslock EXCEPT ![session_user_id[Row(r)]] = r]
               ELSE lslock
  /\ pc' = [pc EXCEPT ![r] = "s3a_locked"]
  /\ UNCHANGED <<dbVars, rowlock, ev, seen, gateRes, done, wrote, ghostVars>>
  /\ UNCHANGED stageVars

\* stage 3a, step 3: under the lock, creation of the row if the SELECT found
\* none, the guarded append, and the commit, which releases the lock
Stage3aWriteLearnerState(r) ==
  /\ pc[r] = "s3a_locked"
  /\ lslock' = ReleaseLocks(lslock, r)
  /\ learner_rows' = IF learner_rows[session_user_id[Row(r)]] = 0
                     THEN InsertLearnerState(learner_rows, session_user_id[Row(r)])
                     ELSE learner_rows
  /\ session_summaries' =
       [session_summaries EXCEPT ![session_user_id[Row(r)]] = AppendSummary(@, Row(r))]
  /\ pc' = [pc EXCEPT ![r] = "s3a_ls"]
  /\ UNCHANGED <<messages, status, pipeline_error, outputs, rowlock, ev, seen, gateRes,
                 done, wrote, ghostVars>>
  /\ UNCHANGED stageVars

\* stage 3a: update_session_fields(coaching_text=..., status="text_ready")
Stage3aPersist(r) ==
  /\ pc[r] = "s3a_ls"
  /\ RowWritable(Row(r))
  /\ status' = [status EXCEPT ![Row(r)] = StageStatus("s3a", @)]
  /\ outputs' = [outputs EXCEPT ![Row(r)] = @ \cup StageFields("s3a", Row(r))]
  /\ wrote' = [wrote EXCEPT ![r] = @ \cup StageFields("s3a", Row(r))]
  /\ pc' = [pc EXCEPT ![r] = "s3a_sess"]
  /\ UNCHANGED <<messages, learner_rows, pipeline_error, rowlock, session_summaries, ev, seen, gateRes,
                 done, ghostVars>>
  /\ UNCHANGED <<lslock, stageVars>>

\* stage 3a: post_message of the coaching text to the coaching room, then
\* post_message of the raw video to the cooking_videos room, and the stage
\* returns (the two posts are taken as one step)
Stage3aEnd(r) ==
  /\ pc[r] = "s3a_sess"
  /\ messages' = PostMessage(PostMessage(messages, Row(r), "coaching_text"),
                             Row(r), "raw_video")
  /\ done' = [done EXCEPT ![r] = Append(@, "s3a")]
  /\ pc' = [pc EXCEPT ![r] = NextStep("s3a")]
  /\ UNCHANGED <<status, pipeline_error, outputs, session_summaries,
                 learner_rows, rowlock, ev, seen, gateRes, wrote, ghostVars>>
  /\ UNCHANGED <<lslock, stageVars>>

\* stage 3a raises at its current point and the engine re-executes the step
Stage3aRetry(r) ==
  /\ pc[r] \in Stage3aPcs
  /\ pc' = [pc EXCEPT ![r] = "s3a"]
  /\ lslock' = ReleaseLocks(lslock, r)
  /\ UNCHANGED <<dbVars, rowlock, ev, seen, gateRes, done, wrote, ghostVars>>
  /\ UNCHANGED stageVars

\* stage 3a raises at its current point on its last attempt: the error
\* reaches `except Exception as exc`
Stage3aFail(r) ==
  /\ pc[r] \in Stage3aPcs
  /\ pc' = [pc EXCEPT ![r] = "except"]
  /\ exc' = [exc EXCEPT ![r] = StageError("s3a")]
  /\ failedAt' = [failedAt EXCEPT ![r] = "s3a"]
  /\ lslock' = ReleaseLocks(lslock, r)
  /\ UNCHANGED <<dbVars, rowlock, ev, seen, gateRes, done, wrote, markFailed,
                 propagated, rival>>
  /\ UNCHANGED stageVars

\* stage 4 up to step 8: the video is composed and uploaded, and
\* _notify_user posts the coaching video message
Stage4Notify(r) ==
  /\ pc[r] = "s4"
  /\ SlotFree(r)
  /\ messages' = PostMessage(messages, Row(r), "coaching_video")
  /\ pc' = [pc EXCEPT ![r] = "s4_notified"]
  /\ UNCHANGED <<status, pipeline_error, outputs, session_summaries,
                 learner_rows, rowlock, ev, seen, gateRes, done, wrote, ghostVars>>
  /\ UNCHANGED <<lslock, stageVars>>

\* stage 4, step 9: update_session_fields(coaching_video_gcs_path=...), and
\* the stage returns
Stage4Persist(r) ==
  /\ pc[r] = "s4_notified"
  /\ RowWritable(Row(r))
  /\ outputs' = [outputs EXCEPT ![Row(r)] = @ \cup StageFields("s4", Row(r))]
  /\ wrote' = [wrote EXCEPT ![r] = @ \cup StageFields("s4", Row(r))]
  /\ done' = [done EXCEPT ![r] = Append(@, "s4")]
  /\ status' = [status EXCEPT ![Row(r)] = StageStatus("s4", @)]
  /\ pc' = [pc EXCEPT ![r] = NextStep("s4")]
  /\ UNCHANGED <<pipeline_error, session_summaries, learner_rows,
                 messages, rowlock, ev, seen, gateRes, ghostVars>>
  /\ UNCHANGED <<lslock, stageVars>>

\* stage 4 raises after the message was posted and the engine re-executes
\* the step
Stage4Retry(r) ==
  /\ pc[r] = "s4_notified"
  /\ pc' = [pc EXCEPT ![r] = "s4"]
  /\ UNCHANGED <<dbVars, rowlock, ev, seen, gateRes, done, wrote, ghostVars>>
  /\ UNCHANGED <<lslock, stageVars>>

\* stage 4 raises after the message was posted, on its last attempt
Stage4Fail(r) ==
  /\ pc[r] = "s4_notified"
  /\ pc' = [pc EXCEPT ![r] = "except"]
  /\ exc' = [exc EXCEPT ![r] = StageError("s4")]
  /\ failedAt' = [failedAt EXCEPT ![r] = "s4"]
  /\ UNCHANGED <<dbVars, rowlock, ev, seen, gateRes, done, wrote, markFailed,
                 propagated, rival>>
  /\ UNCHANGED <<lslock, stageVars>>

\* mark-completed: _set_terminal_status("completed")
MarkCompletedOk(r) ==
  /\ pc[r] = "mc"
  /\ SlotFree(r)
  /\ RowWritable(Row(r))
  /\ status' = TerminalStatus(status, Row(r), "completed")
  /\ pipeline_error' = TerminalError(pipeline_error, Row(r), NoneVal)
  /\ done' = [done EXCEPT ![r] = Append(@, "mc")]
  /\ pc' = [pc EXCEPT ![r] = NextStep("mc")]
  /\ UNCHANGED <<messages, learner_rows, outputs, rowlock, session_summaries, ev, seen, gateRes,
                 wrote, ghostVars>>
  /\ UNCHANGED <<lslock, stageVars>>

\* mark-completed raises: it is inside the try block
MarkCompletedFail(r) ==
  /\ pc[r] = "mc"
  /\ SlotFree(r)
  /\ exc' = [exc EXCEPT ![r] = StageError("mc")]
  /\ failedAt' = [failedAt EXCEPT ![r] = "mc"]
  /\ pc' = [pc EXCEPT ![r] = "except"]
  /\ UNCHANGED <<dbVars, rowlock, ev, seen, gateRes, done, wrote,
                 markFailed, propagated, rival>>
  /\ UNCHANGED <<lslock, stageVars>>

\* except block: mark-failed succeeds, then the bare raise
MarkFailedOk(r) ==
  /\ pc[r] = "except"
  /\ SlotFree(r)
  /\ RowWritable(Row(r))
  /\ status' = TerminalStatus(status, Row(r), "failed")
  /\ pipeline_error' = TerminalError(pipeline_error, Row(r), exc[r])
  /\ markFailed' = [markFailed EXCEPT ![r] = "ok"]
  /\ propagated' = [propagated EXCEPT ![r] = Reraise(exc[r], NoneVal)]
  /\ pc' = [pc EXCEPT ![r] = "raised"]
  /\ UNCHANGED <<messages, learner_rows, outputs, rowlock, session_summaries, ev, seen, gateRes,
                 done, wrote, exc, failedAt, rival>>
  /\ UNCHANGED <<lslock, stageVars>>

\* except block: mark-failed raises too; the inner except logs it, then
\* the bare raise
MarkFailedFail(r) ==
  /\ pc[r] = "except"
  /\ SlotFree(r)
  /\ markFailed' = [markFailed EXCEPT ![r] = "error"]
  /\ propagated' = [propagated EXCEPT ![r] = Reraise(exc[r], SecondaryError)]
  /\ pc' = [pc EXCEPT ![r] = "raised"]
  /\ UNCHANGED <<dbVars, rowlock, ev, seen, gateRes, done, wrote,
                 exc, failedAt, rival>>
  /\ UNCHANGED <<lslock, stageVars>>

Next ==
  \/ \E s \in Sessions : UploadVideo(s)
  \/ \E e \in DeliveredEvents : DeliverEvent(e)
  \/ \E r \in Runs : GateSelect(r)
  \/ \E r \in Runs : GateBlock(r)
  \/ \E r \in Runs : GateFinish(r)
  \/ \E r \in Runs : StageOk(r)
  \/ \E r \in Runs : StageFail(r)
  \/ \E r \in Runs : Stage2Select(r)
  \/ \E r \in Runs : Stage2Insert(r)
  \/ \E r \in Runs : Stage3aBegin(r)
  \/ \E r \in Runs : Stage3aLock(r)
  \/ \E r \in Runs : Stage3aWriteLearnerState(r)
  \/ \E r \in Runs : Stage3aPersist(r)
  \/ \E r \in Runs : Stage3aEnd(r)
  \/ \E r \in Runs : Stage3aRetry(r)
  \/ \E r \in Runs : Stage3aFail(r)
  \/ \E r \in Runs : Stage4Notify(r)
  \/ \E r \in Runs : Stage4Persist(r)
  \/ \E r \in Runs : Stage4Retry(r)
  \/ \E r \in Runs : Stage4Fail(r)
  \/ \E r \in Runs : MarkCompletedOk(r)
  \/ \E r \in Runs : MarkCompletedFail(r)
  \/ \E r \in Runs : MarkFailedOk(r)
  \/ \E r \in Runs : MarkFailedFail(r)

Spec == Init /\ [][Next]_vars

TypeOK ==
  /\ status \in [Sessions -> Statuses]
  /\ rowlock \in [Sessions -> Runs \cup {0}]
  /\ lslock \in [Users -> Runs \cup {0}]
  /\ \A r \in Runs : gateRes[r] \in {"none", "true", "false"}

\* ------------------------------------------------ stage functions, by value
\* The stage functions of src/pipeline/stages, applied to the responses of
\* the AI services and to the inputs of the clip computation.  StageSpec
\* calls the three validating stages in any order on one session that a run
\* has taken; ClipSpec calls the clip computation.

\* executions of stage 1 that return, per behaviour
MaxExecutions == 2
\* durations of the raw video, in tens of seconds: 0 .. 10 * MaxDuration
MaxDuration == 6
\* key moments, in tens of seconds: -10 .. 10 * (MaxKeyMoment - 1)
MaxKeyMoment == 8
\* length of the key-moment clip, in seconds
ClipSeconds == 30

\* the session the stage functions are called for
StageSession == CHOOSE s \in Sessions : \A t \in Sessions : s <= t

\* the texts an AI response carries
Values == {"v1", "v2"}

Dict(keys, v) == [k \in keys |-> v]

\* `_REQUIRED_KEYS` of the three stages that validate an AI response
VideoAnalysisRequiredKeys ==
  {"cooking_events", "key_moment_timestamp", "key_moment_seconds", "diagnosis"}
CoachingRequiredKeys == {"mondaiten", "skill", "next_action", "success_sign"}
NarrationRequiredKeys == {"part1", "pivot", "part2"}

PIVOT_LINE == "PIVOT_LINE"

\* the key sets of the responses: complete, with a key the stage does not
\* ask for, lacking one required key, and empty
KeySets(required) ==
  {required, required \cup {"extra"}, {}} \cup {required \ {k} : k \in required}

VideoAnalysisResponses ==
  {Dict(keys, v) : keys \in KeySets(VideoAnalysisRequiredKeys), v \in Values}
CoachingResponses ==
  {Dict(keys, "v1") : keys \in KeySets(CoachingRequiredKeys)}
NarrationResponses ==
  {Dict(keys, v) : keys \in SUBSET NarrationRequiredKeys, v \in Values}

\* a validation that finds nothing missing
MissingKeysNone(required, result) == {}

\* `_REQUIRED_KEYS - result.keys()`
MissingKeys(required, result) == required \ DOMAIN result

\* an update that keeps the keys of the stored dict the new one lacks
UpdateSessionFieldMerge(old, new) ==
  [k \in DOMAIN old \cup DOMAIN new |-> IF k \in DOMAIN new THEN new[k] ELSE old[k]]

\* update_session_fields: `setattr(session, key, value)`
UpdateSessionField(old, new) == new

\* `narration.setdefault("pivot", PIVOT_LINE)`
KeepPivot(narration) ==
  [k \in DOMAIN narration \cup {"pivot"} |->
     IF k \in DOMAIN narration THEN narration[k] ELSE PIVOT_LINE]

\* `narration["pivot"] = PIVOT_LINE`
OverridePivot(narration) ==
  [k \in DOMAIN narration \cup {"pivot"} |->
     IF k = "pivot" THEN PIVOT_LINE ELSE narration[k]]

\* the values `video_analysis.get("key_moment_seconds")` can have: the key
\* absent, null, a JSON number, a string that float() parses, a string that
\* it does not, true or false, a non-empty list
Durations == {10 * i : i \in 0..MaxDuration}
KeyMoments == {10 * i - 10 : i \in 0..MaxKeyMoment}
KeyMomentValues ==
  [kind : {"number", "numeric_string"}, val : KeyMoments]
    \cup [kind : {"bool"}, val : {0, 1}]
    \cup [kind : {"missing", "null", "string", "list"}, val : {0}]

NoKeyMoment == [kind |-> "missing", val |-> 0]

\* `x or 0` with x = `.get("key_moment_seconds", 0)`
OrZero(k) ==
  IF k.kind \in {"missing", "null"} \/ (k.kind \in {"number", "bool"} /\ k.val = 0)
  THEN [kind |-> "number", val |-> 0] ELSE k

\* float(x) raises ValueError or TypeError
FloatRaises(k) == k.kind \in {"string", "list"}

Max(a, b) == IF a >= b THEN a ELSE b
Min(a, b) == IF a <= b THEN a ELSE b

\* key_moment of _calculate_clamped_key_moment
KeyMoment(k) ==
  IF FloatRaises(OrZero(k)) THEN 0 ELSE Max(0, OrZero(k).val)

\* the key moment without the clamp to the duration
CalculateUnclampedKeyMoment(k, d) == KeyMoment(k)

\* _calculate_clamped_key_moment, for a raw video of d seconds
CalculateClampedKeyMoment(k, d) == Min(KeyMoment(k), Max(0, d - ClipSeconds))

Call(op, raised, response, value, k, d, start) ==
  [op |-> op, raised |-> raised, response |-> response, value |-> value,
   key_moment |-> k, duration |-> d, start |-> start]

otherVars == <<pipeline_error, rowlock, lslock, runVars, ghostVars, apiVars>>

StageInit ==
  /\ InitStageVars
  /\ status = [s \in Sessions |->
                 IF s = StageSession THEN "processing" ELSE "pending_upload"]
  /\ pipeline_error = [s \in Sessions |-> ""]
  /\ outputs = [s \in Sessions |-> {}]
  /\ rowlock = [s \in Sessions |-> 0]
  /\ lslock = [u \in Users |-> 0]
  /\ session_summaries = [u \in Users |-> <<>>]
  /\ learner_rows = [u \in Users |-> 0]
  /\ messages = [s \in Sessions |-> [k \in MessageKinds |-> 0]]
  /\ pc = [r \in Runs |-> "idle"]
  /\ ev = [r \in Runs |-> NoEvent]
  /\ seen = [r \in Runs |-> "none"]
  /\ gateRes = [r \in Runs |-> "none"]
  /\ done = [r \in Runs |-> <<>>]
  /\ wrote = [r \in Runs |-> {}]
  /\ exc = [r \in Runs |-> NoneVal]
  /\ failedAt = [r \in Runs |-> "none"]
  /\ markFailed = [r \in Runs |-> "none"]
  /\ propagated = [r \in Runs |-> NoneVal]
  /\ rival = [r \in Runs |-> 0]

\* run_video_analysis on the response `result` of the model
RunVideoAnalysis(result) ==
  /\ Len(analysis_history) < MaxExecutions
  /\ IF MissingKeys(VideoAnalysisRequiredKeys, result) # {}
     THEN /\ stage_ret' = Call("s1", TRUE, result, EmptyDict, NoKeyMoment, 0, 0)
          /\ UNCHANGED <<video_analysis, analysis_history, outputs>>
     ELSE /\ video_analysis' = UpdateSessionField(video_analysis, result)
          /\ outputs' = [outputs EXCEPT ![StageSession] =
                           @ \cup StageFields("s1", StageSession)]
          /\ analysis_history' = Append(analysis_history, result)
          /\ stage_ret' = Call("s1", FALSE, result, result, NoKeyMoment, 0, 0)
  /\ UNCHANGED <<status, session_summaries, learner_rows, messages,
                 narration_script, otherVars>>

\* run_coaching_script on the response `coaching_text` of the model
RunCoachingScript(coaching_text) ==
  /\ IF MissingKeys(CoachingRequiredKeys, coaching_text) # {}
     THEN /\ stage_ret' =
               Call("s3a", TRUE, coaching_text, EmptyDict, NoKeyMoment, 0, 0)
          /\ UNCHANGED <<status, outputs, session_summaries, learner_rows,
                         messages>>
     ELSE /\ learner_rows' =
               IF learner_rows[session_user_id[StageSession]] = 0
               THEN InsertLearnerState(learner_rows, session_user_id[StageSession])
               ELSE learner_rows
          /\ session_summaries' =
               [session_summaries EXCEPT ![session_user_id[StageSession]] =
                  AppendSummary(@, StageSession)]
          /\ status' = [status EXCEPT ![StageSession] = "text_ready"]
          /\ outputs' = [outputs EXCEPT ![StageSession] =
                           @ \cup StageFields("s3a", StageSession)]
          /\ messages' = PostMessage(PostMessage(messages, StageSession,
                                                 "coaching_text"),
                                     StageSession, "raw_video")
          /\ stage_ret' =
               Call("s3a", FALSE, coaching_text, coaching_text, NoKeyMoment, 0, 0)
  /\ UNCHANGED <<video_analysis, narration_script, analysis_history, otherVars>>

\* run_narration_script on the response `response` of the model: the pivot
\* is set first, the required keys are checked next
RunNarrationScript(response) ==
  /\ IF MissingKeys(NarrationRequiredKeys, OverridePivot(response)) # {}
     THEN /\ stage_ret' = Call("s3b", TRUE, response, EmptyDict, NoKeyMoment, 0, 0)
          /\ UNCHANGED <<narration_script, outputs>>
     ELSE /\ narration_script' =
               UpdateSessionField(narration_script, OverridePivot(response))
          /\ outputs' = [outputs EXCEPT ![StageSession] =
                           @ \cup StageFields("s3b", StageSession)]
          /\ stage_ret' = Call("s3b", FALSE, response, OverridePivot(response),
                               NoKeyMoment, 0, 0)
  /\ UNCHANGED <<status, session_summaries, learner_rows, messages,
                 video_analysis, analysis_history, otherVars>>

\* _calculate_clamped_key_moment for key_moment_seconds = k and a raw video
\* of d seconds
ClampKeyMoment(k, d) ==
  /\ stage_ret' = Call("clamp", FALSE, EmptyDict, EmptyDict, k, d,
                       CalculateClampedKeyMoment(k, d))
  /\ UNCHANGED <<dbVars, video_analysis, narration_script, analysis_history,
                 otherVars>>

StageNext ==
  \/ \E result \in VideoAnalysisResponses : RunVideoAnalysis(result)
  \/ \E coaching_text \in CoachingResponses : RunCoachingScript(coaching_text)
  \/ \E response \in NarrationResponses : RunNarrationScript(response)

StageSpec == StageInit /\ [][StageNext]_vars

\* the clip computation alone, on every input
ClipNext == \E k \in KeyMomentValues, d \in Durations : ClampKeyMoment(k, d)

ClipSpec == StageInit /\ [][ClipNext]_vars

\* ------------------------------------------------- memo endpoints and stage 0
\* POST voice-memo/, POST memo-text/ and run_voice_memo on one session.
\* structured_input is "null" (never set), "empty" ({}) or "dict".

\* the texts a user types, already stripped
TypedTexts == {"typed1", "typed2"}
\* what speech-to-text returns for an audio file
SttTranscripts == {"", "stt"}
\* the extraction either parses to a dict or falls back to {}
Extractions == {"dict", "empty"}

\* `if not session.voice_memo_url: return ...` negated
HasMemoInput(m) == m.voice_memo_url # NoneVal

\* POST /api/sessions/{id}/voice-memo/ with an allowed audio file
UploadVoiceMemo ==
  /\ memo' = [memo EXCEPT !.voice_memo_url = "gcs"]
  /\ memo_ret' = MemoCall("upload_voice_memo", memo, FALSE, "", "null", TRUE)
  /\ UNCHANGED <<dbVars, rowlock, lslock, runVars, ghostVars, video_analysis,
                 narration_script, analysis_history, stage_ret, extraVars, uploadVars, createVars,
                 webhookVars>>

\* POST /api/sessions/{id}/memo-text/
SaveMemoText(text) ==
  /\ memo' = [memo EXCEPT !.voice_transcript = text, !.voice_memo_url = NoneVal]
  /\ memo_ret' = MemoCall("save_memo_text", memo, FALSE, text, "null", TRUE)
  /\ UNCHANGED <<dbVars, rowlock, lslock, runVars, ghostVars, video_analysis,
                 narration_script, analysis_history, stage_ret, extraVars, uploadVars, createVars,
                 webhookVars>>

\* run_voice_memo: the early return, or download, speech-to-text, extraction
\* and the write; `fails` is a download or service error
RunVoiceMemo(transcript, structured, fails) ==
  /\ IF ~HasMemoInput(memo)
     THEN /\ memo_ret' = MemoCall("run_voice_memo", memo, FALSE, "", "empty", FALSE)
          /\ UNCHANGED memo
     ELSE IF fails
     THEN /\ memo_ret' = MemoCall("run_voice_memo", memo, TRUE, "", "null", FALSE)
          /\ UNCHANGED memo
     ELSE /\ memo' = [memo EXCEPT !.voice_transcript = transcript,
                                  !.structured_input = structured]
          /\ memo_ret' = MemoCall("run_voice_memo", memo, FALSE, transcript,
                                  structured, TRUE)
  /\ UNCHANGED <<dbVars, rowlock, lslock, runVars, ghostVars, video_analysis,
                 narration_script, analysis_history, stage_ret, extraVars, uploadVars, createVars,
                 webhookVars>>

MemoNext ==
  \/ UploadVoiceMemo
  \/ \E text \in TypedTexts : SaveMemoText(text)
  \/ \E transcript \in SttTranscripts, structured \in Extractions,
        fails \in BOOLEAN : RunVoiceMemo(transcript, structured, fails)

MemoSpec == StageInit /\ [][MemoNext]_vars

\* ------------------------------------------- upload-url and confirm-upload
\* POST upload-url/ and POST confirm-upload/ on one session, with the status
\* of the session moved by the rest of the program in between.

\* events counted per session ("this many or more")
MaxEvents == 2

\* object paths upload-url issues (each contains a fresh uuid)
IssuedPaths == {"p1", "p2", "p3"}
\* the paths a client may send to confirm-upload
ClientPaths == IssuedPaths \cup {"forged"}

\* a confirm-upload without the status guard
ConfirmAllowedAlways(st) == TRUE

\* `if owned_session.status != "pending_upload": raise 409` negated
ConfirmAllowed(st) == st = "pending_upload"

\* POST /api/sessions/{id}/upload-url/ : issues a fresh path and stores it
GetUploadUrl(p) ==
  /\ p # pending_gcs_path
  /\ p # raw_video_url
  /\ pending_gcs_path' = p
  /\ http_ret' = HttpCall("get_upload_url", p, 200)
  /\ UNCHANGED <<dbVars, rowlock, lslock, runVars, ghostVars, video_analysis,
                 narration_script, analysis_history, stage_ret, extraVars, memo, memo_ret,
                 createVars, webhookVars,
                 raw_video_url, confirm_events>>

\* POST /api/sessions/{id}/confirm-upload/ with body.gcs_path = p; `sent`
\* tells whether send_video_uploaded succeeds after the commit
ConfirmUpload(p, sent) ==
  /\ IF ~ConfirmAllowed(status[StageSession])
     THEN /\ http_ret' = HttpCall("confirm_upload", p, 409)
          /\ UNCHANGED <<status, pending_gcs_path, raw_video_url, confirm_events>>
     ELSE IF p # pending_gcs_path
     THEN /\ http_ret' = HttpCall("confirm_upload", p, 400)
          /\ UNCHANGED <<status, pending_gcs_path, raw_video_url, confirm_events>>
     ELSE /\ raw_video_url' = p
          /\ pending_gcs_path' = NoneVal
          /\ status' = [status EXCEPT ![StageSession] = "uploaded"]
          /\ confirm_events' = IF sent /\ confirm_events < MaxEvents
                               THEN confirm_events + 1 ELSE confirm_events
          /\ http_ret' = HttpCall("confirm_upload", p, IF sent THEN 200 ELSE 500)
  /\ UNCHANGED <<pipeline_error, outputs, session_summaries, learner_rows,
                 messages, rowlock, lslock, runVars, ghostVars, video_analysis,
                 narration_script, analysis_history, stage_ret, extraVars, memo, memo_ret,
                 createVars, webhookVars>>

\* the status written by the rest of the program: upload_video writes
\* "uploaded", the pipeline "processing", "text_ready", "completed" and
\* "failed"; nothing writes "pending_upload"
StatusWritten(st) ==
  /\ status' = [status EXCEPT ![StageSession] = st]
  /\ http_ret' = HttpCall("status", "", 0)
  /\ UNCHANGED <<pipeline_error, outputs, session_summaries, learner_rows,
                 messages, rowlock, lslock, runVars, ghostVars, video_analysis,
                 narration_script, analysis_history, stage_ret, extraVars, memo, memo_ret,
                 createVars, webhookVars,
                 pending_gcs_path, raw_video_url, confirm_events>>

UploadNext ==
  \/ \E p \in IssuedPaths : GetUploadUrl(p)
  \/ \E p \in ClientPaths, sent \in BOOLEAN : ConfirmUpload(p, sent)
  \/ \E st \in Statuses \ {"pending_upload"} : StatusWritten(st)

UploadSpec == Init /\ [][UploadNext]_vars

\* ----------------------------------------------------------- create-session
\* POST /api/sessions/ by one user, requests running concurrently; each
\* request reads the existing rows and later commits its insert.

\* a table without the unique constraint
SessionInsertNeverConflicts(rows, n) == FALSE

\* UniqueConstraint("user_id", "dish_id", "session_number"): the commit of a
\* row whose number is already there raises IntegrityError
SessionInsertConflicts(rows, n) == \E i \in 1..Len(rows) : rows[i] = n

\* the SELECT of the existing rows, the limit check and the name check;
\* `named` tells whether custom_dish_name is given
CreateSessionCount(q, d, named) ==
  /\ req[q].pc = "idle"
  /\ LET session_number == Len(created[d]) + 1
     IN req' = [req EXCEPT ![q] =
          IF d # "free" /\ session_number > 3
          THEN [pc |-> "done", dish |-> d, session_number |-> session_number,
                code |-> 400]
          ELSE IF d = "free" /\ ~named
          THEN [pc |-> "done", dish |-> d, session_number |-> session_number,
                code |-> 422]
          ELSE [pc |-> "counted", dish |-> d,
                session_number |-> session_number, code |-> 0]]
  /\ UNCHANGED <<dbVars, rowlock, lslock, runVars, ghostVars, video_analysis,
                 narration_script, analysis_history, stage_ret, extraVars, memo, memo_ret,
                 uploadVars, webhookVars, created>>

\* db.add and db.commit, with the IntegrityError handler
CreateSessionCommit(q) ==
  /\ req[q].pc = "counted"
  /\ LET d == req[q].dish
         n == req[q].session_number
     IN IF SessionInsertConflicts(created[d], n)
        THEN /\ req' = [req EXCEPT ![q].pc = "done", ![q].code = 409]
             /\ UNCHANGED created
        ELSE /\ created' = [created EXCEPT ![d] = Append(@, n)]
             /\ req' = [req EXCEPT ![q].pc = "done", ![q].code = 201]
  /\ UNCHANGED <<dbVars, rowlock, lslock, runVars, ghostVars, video_analysis,
                 narration_script, analysis_history, stage_ret, extraVars, memo, memo_ret,
                 uploadVars, webhookVars>>

CreateNext ==
  \/ \E q \in Requests, d \in Dishes, named \in BOOLEAN :
       CreateSessionCount(q, d, named)
  \/ \E q \in Requests : CreateSessionCommit(q)

CreateSpec == Init /\ [][CreateNext]_vars

\* ------------------------------------------------------------ clerk webhook
\* POST /api/webhooks/clerk/ : deliveries about one Clerk user, each in its
\* own database transaction, running concurrently.

\* svix-id headers; "msg1" and "msg2" carry a user.created event with id and
\* email, "msg3" one without an email
SvixIds == {"msg1", "msg2", "msg3"}
PayloadComplete(id) == id # "msg3"

\* a table without the primary key on the event id
WebhookEventNeverConflicts(events, id) == FALSE

\* WebhookEvent.id is the primary key: flushing a committed id raises
\* IntegrityError
WebhookEventConflicts(events, id) == id \in events

\* an insert waits while another transaction holds an uncommitted row with
\* the same key
EventInsertBlocked(d) ==
  \E e \in Deliveries \ {d} :
    delivery[e].event_flushed /\ delivery[e].svix_id = delivery[d].svix_id
UserInsertBlocked(d) ==
  \E e \in Deliveries \ {d} : delivery[e].user_flushed

\* wh.verify: an invalid signature is answered 400 before anything is stored
WebhookVerify(d, id, valid) ==
  /\ delivery[d].pc = "idle"
  /\ delivery' = [delivery EXCEPT ![d] =
       [@ EXCEPT !.svix_id = id, !.valid = valid,
                 !.pc = IF valid THEN "verified" ELSE "done",
                 !.ret = IF valid THEN "" ELSE "400"]]
  /\ UNCHANGED <<dbVars, rowlock, lslock, runVars, ghostVars, video_analysis,
                 narration_script, analysis_history, stage_ret, extraVars, memo, memo_ret,
                 uploadVars, createVars, webhook_events, accounts>>

\* db.add(WebhookEvent(id=svix_id)); flush, with the IntegrityError handler
WebhookRecordEvent(d) ==
  /\ delivery[d].pc = "verified"
  /\ ~EventInsertBlocked(d)
  /\ delivery' = [delivery EXCEPT ![d] =
       IF WebhookEventConflicts(webhook_events, delivery[d].svix_id)
       THEN [@ EXCEPT !.pc = "done", !.ret = "already_processed"]
       ELSE [@ EXCEPT !.pc = "recorded", !.event_flushed = TRUE]]
  /\ UNCHANGED <<dbVars, rowlock, lslock, runVars, ghostVars, video_analysis,
                 narration_script, analysis_history, stage_ret, extraVars, memo, memo_ret,
                 uploadVars, createVars, webhook_events, accounts>>

\* the payload checks and the SELECT of the existing user; a payload without
\* id or email commits the event and returns
WebhookSelectExisting(d) ==
  /\ delivery[d].pc = "recorded"
  /\ IF ~PayloadComplete(delivery[d].svix_id)
     THEN /\ webhook_events' = webhook_events \cup {delivery[d].svix_id}
          /\ delivery' = [delivery EXCEPT ![d] =
               [@ EXCEPT !.pc = "done", !.ret = "ok", !.event_flushed = FALSE]]
     ELSE /\ delivery' = [delivery EXCEPT ![d].pc =
               IF accounts.users > 0 THEN "commit" ELSE "creating"]
          /\ UNCHANGED webhook_events
  /\ UNCHANGED <<dbVars, rowlock, lslock, runVars, ghostVars, video_analysis,
                 narration_script, analysis_history, stage_ret, extraVars, memo, memo_ret,
                 uploadVars, createVars, accounts>>

\* the savepoint: User, LearnerState and two ChatRooms; an IntegrityError on
\* clerk_user_id rolls the savepoint back and the user is found again
WebhookCreateUser(d) ==
  /\ delivery[d].pc = "creating"
  /\ ~UserInsertBlocked(d)
  /\ delivery' = [delivery EXCEPT ![d] =
       IF accounts.users > 0
       THEN [@ EXCEPT !.pc = "commit"]
       ELSE [@ EXCEPT !.pc = "commit", !.user_flushed = TRUE]]
  /\ UNCHANGED <<dbVars, rowlock, lslock, runVars, ghostVars, video_analysis,
                 narration_script, analysis_history, stage_ret, extraVars, memo, memo_ret,
                 uploadVars, createVars, webhook_events, accounts>>

\* await db.commit(); return {"status": "ok"}
WebhookCommit(d) ==
  /\ delivery[d].pc = "commit"
  /\ webhook_events' = webhook_events \cup {delivery[d].svix_id}
  /\ accounts' =
       IF delivery[d].user_flushed
       THEN [users |-> accounts.users + 1,
             learner_states |-> accounts.learner_states + 1,
             chat_rooms |-> accounts.chat_rooms + 2]
       ELSE accounts
  /\ delivery' = [delivery EXCEPT ![d] =
       [@ EXCEPT !.pc = "done", !.ret = "ok", !.event_flushed = FALSE,
                 !.user_flushed = FALSE, !.created_user = delivery[d].user_flushed]]
  /\ UNCHANGED <<dbVars, rowlock, lslock, runVars, ghostVars, video_analysis,
                 narration_script, analysis_history, stage_ret, extraVars, memo, memo_ret,
                 uploadVars, createVars>>

\* an exception after the flush of the event (invalid JSON, an unexpected
\* IntegrityError re-raised, a lost connection): the transaction rolls back
WebhookAbort(d) ==
  /\ delivery[d].pc \in {"recorded", "creating", "commit"}
  /\ delivery' = [delivery EXCEPT ![d] =
       [@ EXCEPT !.pc = "done", !.ret = "error", !.event_flushed = FALSE,
                 !.user_flushed = FALSE]]
  /\ UNCHANGED <<dbVars, rowlock, lslock, runVars, ghostVars, video_analysis,
                 narration_script, analysis_history, stage_ret, extraVars, memo, memo_ret,
                 uploadVars, createVars, webhook_events, accounts>>

WebhookNext ==
  \/ \E d \in Deliveries, id \in SvixIds, valid \in BOOLEAN :
       WebhookVerify(d, id, valid)
  \/ \E d \in Deliveries : WebhookRecordEvent(d)
  \/ \E d \in Deliveries : WebhookSelectExisting(d)
  \/ \E d \in Deliveries : WebhookCreateUser(d)
  \/ \E d \in Deliveries : WebhookCommit(d)
  \/ \E d \in Deliveries : WebhookAbort(d)

WebhookSpec == Init /\ [][WebhookNext]_vars

\* ------------------------------------------- stage 1 and the remote file
\* run_video_analysis from the upload to the AI file service to the point
\* where the remote file is no longer used.

\* files.delete runs in the `finally` of the block around generate_content
\* only; the polling loop stands before that block
Deletes(outcome) == IF outcome \in {"success", "generation_error"} THEN 1 ELSE 0

\* the execution ends with this outcome
AnalysisExit(outcome) ==
  [va EXCEPT !.pc = "done", !.outcome = outcome, !.deletes = Deletes(outcome)]

\* gemini_client.files.upload returns a file with uri and name
AnalysisUpload ==
  /\ va.pc = "start"
  /\ va' = [va EXCEPT !.pc = "polling", !.uploaded = TRUE]
  /\ UNCHANGED <<dbVars, rowlock, lslock, runVars, ghostVars, video_analysis,
                 narration_script, analysis_history, stage_ret, memo, memo_ret,
                 uploadVars, createVars, webhookVars, learnerVars>>

\* one round of the polling loop: files.get reports `state`
AnalysisPoll(state) ==
  /\ va.pc = "polling"
  /\ va' = CASE state = "ACTIVE" -> [va EXCEPT !.pc = "generate"]
            [] state = "FAILED" -> AnalysisExit("state_failed")
            [] OTHER -> IF va.polls + 1 = PollRetries
                        THEN AnalysisExit("poll_timeout")
                        ELSE [va EXCEPT !.polls = @ + 1]
  /\ UNCHANGED <<dbVars, rowlock, lslock, runVars, ghostVars, video_analysis,
                 narration_script, analysis_history, stage_ret, memo, memo_ret,
                 uploadVars, createVars, webhookVars, learnerVars>>

\* generate_content returns or raises, then the `finally`
AnalysisGenerate(ok) ==
  /\ va.pc = "generate"
  /\ va' = AnalysisExit(IF ok THEN "success" ELSE "generation_error")
  /\ UNCHANGED <<dbVars, rowlock, lslock, runVars, ghostVars, video_analysis,
                 narration_script, analysis_history, stage_ret, memo, memo_ret,
                 uploadVars, createVars, webhookVars, learnerVars>>

\* the engine executes the step again
AnalysisAgain ==
  /\ va.pc = "done"
  /\ va.runs < MaxAnalysisRuns
  /\ va' = [IdleAnalysis EXCEPT
              !.runs = va.runs + 1,
              !.orphans = va.orphans + (IF va.uploaded /\ va.deletes = 0 THEN 1 ELSE 0)]
  /\ UNCHANGED <<dbVars, rowlock, lslock, runVars, ghostVars, video_analysis,
                 narration_script, analysis_history, stage_ret, memo, memo_ret,
                 uploadVars, createVars, webhookVars, learnerVars>>

AnalysisNext ==
  \/ AnalysisUpload
  \/ \E state \in {"ACTIVE", "FAILED", "PROCESSING"} : AnalysisPoll(state)
  \/ \E ok \in BOOLEAN : AnalysisGenerate(ok)
  \/ AnalysisAgain

AnalysisSpec == Init /\ [][AnalysisNext]_vars

\* ------------------------------------------- stage 3a and LearnerState
\* run_coaching_script by value: the unlocked snapshot, the call of the
\* model, the locked write of LearnerState and the update of the Session
\* row, for executions that may overlap and may be repeated.

InList(list, x) == \E i \in 1..Len(list) : list[i] = x
IndexOf(list, x) == CHOOSE i \in 1..Len(list) : list[i] = x /\ \A j \in 1..(i - 1) : list[j] # x
\* list.remove(x): the first occurrence
ListRemove(list, x) ==
  LET i == IndexOf(list, x)
  IN [j \in 1..(Len(list) - 1) |-> IF j < i THEN list[j] ELSE list[j + 1]]
\* list.append(x) without the guard
AppendAlways(list, x) == Append(list, x)

\* `x not in list` guarding list.append(x)
AppendIfAbsent(list, x) == IF InList(list, x) THEN list ELSE Append(list, x)

\* a write computed from the snapshot taken before the call of the model
WriteBaseSnapshot(snapshot, locked) == snapshot

\* the row the write is computed from: the one SELECT ... FOR UPDATE returned
WriteBase(snapshot, locked) == locked

\* a stage without the guard
AlreadyProcessedNever(summaries, s) == FALSE

\* `any(s.get("session_id") == session_id for s in summaries)`
AlreadyProcessed(summaries, s) ==
  \E i \in 1..Len(summaries) : summaries[i].session_id = s

\* the session summaries after the guarded append
Summaries(row, s, result) ==
  IF AlreadyProcessed(row.session_summaries, s)
  THEN row.session_summaries
  ELSE Append(row.session_summaries,
              [session_id |-> s, mondaiten |-> result.mondaiten,
               skill |-> result.skill])

\* recurring_mistakes after the update: on the first run for the session
\* and with a diagnosis, the first entry with that text is incremented, or
\* a new entry with count 1 is appended
RecurringMistakes(row, s, diagnosis) ==
  LET existing == row.recurring_mistakes
      texts == [i \in 1..Len(existing) |-> existing[i].text]
  IN IF AlreadyProcessed(row.session_summaries, s) \/ diagnosis = ""
     THEN existing
     ELSE IF InList(texts, diagnosis)
     THEN [existing EXCEPT ![IndexOf(texts, diagnosis)].count = @ + 1]
     ELSE Append(existing, [text |-> diagnosis, count |-> 1])

\* skills_developing after the update
SkillsDeveloping(row, s, skill_val) ==
  IF session_numbers[s] >= 2
  THEN IF InList(row.skills_developing, skill_val)
       THEN ListRemove(row.skills_developing, skill_val)
       ELSE row.skills_developing
  ELSE AppendIfAbsent(row.skills_developing, skill_val)

\* skills_acquired after the update
SkillsAcquired(row, s, skill_val) ==
  IF session_numbers[s] >= 2 /\ InList(row.skills_developing, skill_val)
  THEN AppendIfAbsent(row.skills_acquired, skill_val)
  ELSE row.skills_acquired

\* the LearnerState row committed by step 3
WriteLearnerState(row, s, result, diagnosis) ==
  [session_summaries |-> Summaries(row, s, result),
   recurring_mistakes |-> RecurringMistakes(row, s, diagnosis),
   skills_developing |-> SkillsDeveloping(row, s, result.skill),
   skills_acquired |-> SkillsAcquired(row, s, result.skill)]

\* get_session_with_dish, step 1 and step 2: the session with the diagnosis
\* of its video analysis, the unlocked snapshot of LearnerState, and the
\* coaching text the model returns, with the required keys; the executions
\* are numbered in the order in which they start
CoachingGenerate(e, s, diagnosis, result) ==
  /\ ex[e].pc = "idle"
  /\ \A d \in Execs : d < e => ex[d].pc # "idle"
  /\ ex' = [ex EXCEPT ![e] = [@ EXCEPT !.pc = "generated", !.session = s,
                                        !.diagnosis = diagnosis,
                                        !.result = result,
                                        !.ls_snapshot = ls]]
  /\ UNCHANGED <<dbVars, rowlock, lslock, runVars, ghostVars, video_analysis,
                 narration_script, analysis_history, stage_ret, memo, memo_ret,
                 uploadVars, createVars, webhookVars, va, ls, session_coaching, ls_holder,
                 contributed>>

\* step 3, first half: SELECT ... FOR UPDATE returns the row
CoachingLock(e) ==
  /\ ex[e].pc = "generated"
  /\ ls_holder = 0
  /\ ls_holder' = e
  /\ ex' = [ex EXCEPT ![e] = [@ EXCEPT !.pc = "locked",
                                        !.row = WriteBase(ex[e].ls_snapshot, ls)]]
  /\ UNCHANGED <<dbVars, rowlock, lslock, runVars, ghostVars, video_analysis,
                 narration_script, analysis_history, stage_ret, memo, memo_ret,
                 uploadVars, createVars, webhookVars, va, ls, session_coaching, contributed>>

\* step 3, second half: the updates and the commit, which releases the lock
CoachingCommit(e) ==
  /\ ex[e].pc = "locked"
  /\ LET s == ex[e].session
         new == WriteLearnerState(ex[e].row, s, ex[e].result, ex[e].diagnosis)
     IN /\ ls' = new
        /\ contributed' =
             IF new.recurring_mistakes # ex[e].row.recurring_mistakes
             THEN [contributed EXCEPT ![s] =
                     [text |-> ex[e].diagnosis, changes |-> @.changes + 1,
                      writes |-> @.writes + 1]]
             ELSE [contributed EXCEPT ![s].writes = @ + 1]
  /\ ls_holder' = 0
  /\ ex' = [ex EXCEPT ![e] = [@ EXCEPT !.pc = "committed",
                                        !.row = NewLearnerState]]
  /\ UNCHANGED <<dbVars, rowlock, lslock, runVars, ghostVars, video_analysis,
                 narration_script, analysis_history, stage_ret, memo, memo_ret,
                 uploadVars, createVars, webhookVars, va, session_coaching>>

\* update_session_fields(coaching_text=..., status="text_ready")
CoachingPersist(e) ==
  /\ ex[e].pc = "committed"
  /\ session_coaching' = [session_coaching EXCEPT ![ex[e].session] = ex[e].result]
  /\ ex' = [ex EXCEPT ![e] = [IdleExec EXCEPT !.pc = "done"]]
  /\ UNCHANGED <<dbVars, rowlock, lslock, runVars, ghostVars, video_analysis,
                 narration_script, analysis_history, stage_ret, memo, memo_ret,
                 uploadVars, createVars, webhookVars, va, ls, ls_holder, contributed>>

\* an exception anywhere in the stage: an open transaction rolls back
CoachingRaise(e) ==
  /\ ex[e].pc \in {"generated", "locked", "committed"}
  /\ ls_holder' = IF ls_holder = e THEN 0 ELSE ls_holder
  /\ ex' = [ex EXCEPT ![e] = [IdleExec EXCEPT !.pc = "raised"]]
  /\ UNCHANGED <<dbVars, rowlock, lslock, runVars, ghostVars, video_analysis,
                 narration_script, analysis_history, stage_ret, memo, memo_ret,
                 uploadVars, createVars, webhookVars, va, ls, session_coaching, contributed>>

LearnerNext ==
  \/ \E e \in Execs, s \in Sessions, diagnosis \in Diagnoses,
          result \in CoachingResults : CoachingGenerate(e, s, diagnosis, result)
  \/ \E e \in Execs : CoachingLock(e)
  \/ \E e \in Execs : CoachingCommit(e)
  \/ \E e \in Execs : CoachingPersist(e)
  \/ \E e \in Execs : CoachingRaise(e)

LearnerSpec == Init /\ [][LearnerNext]_vars

\* ------------------------------------------------------------ properties
\* the steps of one run in the order of the source text
FullStepOrder == <<"gate", "s0", "s1", "s2", "s3a", "s3b", "s4", "mc">>
SixStages == {"s0", "s1", "s2", "s3a", "s3b", "s4"}
StepsDone(r) == {done[r][i] : i \in 1..Len(done[r])}
Terminated(r) == pc[r] \in {"returned", "raised"}

\* the step a run is at, executing or about to start
StepAt(r) ==
  IF pc[r] \in {"gate", "gate_wait", "gate_locked"} THEN "gate"
  ELSE IF pc[r] = "s2_insert" THEN "s2"
  ELSE IF pc[r] = "s4_notified" THEN "s4"
  ELSE IF pc[r] \in Stage3aPcs THEN "s3a" ELSE pc[r]

\* past the gate and not yet at the terminal status write
Active(r) == gateRes[r] = "true" /\ ~Terminated(r)

\* C1: gate calls on the same row never hold the row at the same time, and
\* when a gate call blocks behind a gate call that read "uploaded", exactly
\* one of the two returns true: the one that held the lock returns true and
\* the blocked one returns false.
C1_GateExclusivity ==
  /\ \A r, q \in Runs :
       (r # q /\ pc[r] = "gate_locked" /\ pc[q] = "gate_locked" /\ HasRow(r))
         => Row(r) # Row(q)
  /\ \A r \in Runs : (pc[r] = "gate_locked" /\ HasRow(r)) => seen[r] = status[Row(r)]
  /\ \A q \in Runs :
       rival[q] # 0 =>
         /\ gateRes[rival[q]] \in {"none", "true"}
         /\ gateRes[q] \in {"none", "false"}
         /\ gateRes[q] = "false" => gateRes[rival[q]] = "true"

\* two overlapping gate calls on an uploaded session have both returned
C1_Witness ==
  \E q \in Runs :
    /\ rival[q] # 0
    /\ Row(q) = Row(rival[q])
    /\ gateRes[q] = "false"
    /\ gateRes[rival[q]] = "true"

\* C2: a gate call returns true exactly when the row exists and its status
\* is "uploaded" or "failed", and then the status becomes "processing";
\* otherwise it returns false, the handler returns without an exception and
\* no row is changed.
C2_GateDecision ==
  [][\A r \in Runs :
       (pc[r] = "gate_locked" /\ pc'[r] # "gate_locked") =>
         LET runnable == HasRow(r) /\ status[Row(r)] \in {"uploaded", "failed"}
         IN /\ gateRes'[r] \in {"true", "false"}
            /\ (gateRes'[r] = "true") <=> runnable
            /\ runnable => (status'[Row(r)] = "processing" /\ pc'[r] = "s0")
            /\ ~runnable =>
                 /\ pc'[r] = "returned"
                 /\ propagated'[r] = NoneVal
                 /\ UNCHANGED dbVars]_vars

\* the gate has refused a completed session, a processing session and a
\* session id without a row
C2_Witness ==
  \E r \in Runs :
    /\ gateRes[r] = "false"
    /\ pc[r] = "returned"
    /\ \/ ~HasRow(r)
       \/ HasRow(r) /\ status[Row(r)] \in {"completed", "processing", "text_ready"}

\* C3: at most one run per session is past the gate and not yet at its
\* terminal status write, whatever trigger events are delivered.
C3_OneActiveRunPerSession ==
  \A r, q \in Runs :
    (r # q /\ Active(r) /\ Active(q)) => Row(r) # Row(q)

\* C4: the steps a run has completed are a prefix of gate, stage 0, stage 1,
\* stage 2, stage 3a, stage 3b, stage 4, mark-completed; the step it is at
\* is the next one of that order; a run that returns after the gate let it
\* pass has completed all of them.
C4_FixedStepOrder ==
  \A r \in Runs :
    /\ Len(done[r]) <= Len(FullStepOrder)
    /\ done[r] = SubSeq(FullStepOrder, 1, Len(done[r]))
    /\ (pc[r] \notin {"idle", "returned", "raised", "except"})
         => /\ Len(done[r]) < Len(FullStepOrder)
            /\ StepAt(r) = FullStepOrder[Len(done[r]) + 1]
    /\ (pc[r] = "returned" /\ gateRes[r] = "true") => done[r] = FullStepOrder

\* a run has gone through all eight steps
C4_Witness == \E r \in Runs : done[r] = FullStepOrder /\ pc[r] = "returned"

C7_OriginalExceptionPropagates ==
  \A r \in Runs :
    markFailed[r] = "error" =>
      /\ pc[r] = "raised"
      /\ propagated[r] = exc[r]
      /\ propagated[r] # SecondaryError

\* a stage raised, mark-failed raised too, and the handler has raised
C7_Witness ==
  \E r \in Runs :
    /\ markFailed[r] = "error"
    /\ failedAt[r] \in SixStages
    /\ propagated[r] = StageError(failedAt[r])

\* a JSON integer (true and false are JSON booleans)
IsJsonInteger(v) == v.kind = "int"

\* C8: a run whose event lacks an integer session_id or an integer user_id
\* returns at once: the gate is never invoked for it.
C8_InvalidPayloadIgnored ==
  \A r \in Runs :
    (pc[r] # "idle" /\ ~(IsJsonInteger(ev[r].session_id) /\ IsJsonInteger(ev[r].user_id)))
      => (pc[r] = "returned" /\ gateRes[r] = "none")

\* the status changes the state machine allows
LegalTransitions ==
  {<<"uploaded", "processing">>, <<"failed", "processing">>,
   <<"processing", "text_ready">>, <<"text_ready", "completed">>,
   <<"processing", "failed">>, <<"text_ready", "failed">>}

\* C9: every change of a session's status made by a step of a run is one
\* of the six legal transitions.
C9_LegalStatusChanges ==
  [][\A s \in Sessions :
       (status'[s] # status[s] /\ \E r \in Runs : pc'[r] # pc[r])
         => <<status[s], status'[s]>> \in LegalTransitions]_vars

C11_SummaryDedup ==
  \A u \in Users :
    \A i, j \in 1..Len(session_summaries[u]) :
      session_summaries[u][i] = session_summaries[u][j] => i = j

\* two runs have both completed stage 3a for the same session, and the
\* owner's session_summaries holds that session once
C11_Witness ==
  \E r, q \in Runs :
    /\ r # q
    /\ HasRow(r)
    /\ Row(r) = Row(q)
    /\ "s3a" \in StepsDone(r)
    /\ "s3a" \in StepsDone(q)
    /\ session_summaries[session_user_id[Row(r)]] = <<Row(r)>>

C13_NoDuplicateMessages ==
  \A s \in Sessions : \A k \in MessageKinds : messages[s][k] <= 1

\* C14: while a session's status is "processing" or "text_ready", a step
\* that is not a step of a run (no run changes its position) leaves the
\* session's status, pipeline_error and stage outputs unchanged.
C14_PipelineFieldsOwnedByRun ==
  [][\A s \in Sessions :
       (status[s] \in {"processing", "text_ready"} /\ pc' = pc)
         => /\ status'[s] = status[s]
            /\ pipeline_error'[s] = pipeline_error[s]
            /\ outputs'[s] = outputs[s]]_vars

\* C15: when a run that passed the gate ends, the session's status is
\* "completed" or "failed", never "processing" or "text_ready".
C15_RunEndsInTerminalStatus ==
  [][\A r \in Runs :
       (gateRes[r] = "true" /\ ~Terminated(r) /\ Terminated(r)')
         => status'[Row(r)] \in {"completed", "failed"}]_vars

\* C16: however many times stage 1 has returned for a session, the stored
\* video_analysis is the result of the latest execution alone: the earlier
\* result is overwritten, no key of it survives
C16_AnalysisOverwritten ==
  Len(analysis_history) > 0 =>
    video_analysis = analysis_history[Len(analysis_history)]

\* stage 1 has returned twice, the earlier result carrying a key the later
\* one lacks
C16_Witness ==
  /\ Len(analysis_history) >= 2
  /\ \E i \in 1..(Len(analysis_history) - 1) :
       ~(DOMAIN analysis_history[i] \subseteq
           DOMAIN analysis_history[Len(analysis_history)])
  /\ video_analysis = analysis_history[Len(analysis_history)]

\* C17: a call of stage 1 or of stage 3a whose AI response lacks one of the
\* stage's required keys raises, and the session row, the LearnerState rows,
\* the summaries and the chat messages are as they were before the call
C17_MissingKeyNoWrite ==
  [][\A op \in {"s1", "s3a"} :
       (/\ stage_ret'.op = op
        /\ (IF op = "s1" THEN VideoAnalysisRequiredKeys ELSE CoachingRequiredKeys)
             \ DOMAIN stage_ret'.response # {})
         => /\ stage_ret'.raised
            /\ UNCHANGED <<dbVars, video_analysis, narration_script>>]_vars

\* stage 3a has raised on a response that has some but not all of its keys,
\* after earlier calls had written the analysis and the LearnerState row
C17_Witness ==
  /\ stage_ret.op = "s3a"
  /\ stage_ret.raised
  /\ DOMAIN stage_ret.response # {}
  /\ CoachingRequiredKeys \ DOMAIN stage_ret.response # {}
  /\ video_analysis # EmptyDict
  /\ learner_rows[session_user_id[StageSession]] = 1
  /\ messages[StageSession]["coaching_text"] = 1

\* C18: a call of stage 3b whose AI response lacks `part1`, `pivot` or
\* `part2` raises and leaves narration_script as it was
C18_NarrationMissingKeyRaises ==
  [][(/\ stage_ret'.op = "s3b"
      /\ NarrationRequiredKeys \ DOMAIN stage_ret'.response # {})
        => /\ stage_ret'.raised
           /\ narration_script' = narration_script]_vars

\* C19: for every response stage 3b accepts, the pivot of the returned script
\* and of the persisted script is the canonical phrase, whatever the model
\* wrote, and the persisted script equals the returned one
C19_CanonicalPivot ==
  (stage_ret.op = "s3b" /\ ~stage_ret.raised)
    => /\ stage_ret.value["pivot"] = PIVOT_LINE
       /\ narration_script["pivot"] = PIVOT_LINE
       /\ narration_script = stage_ret.value

\* stage 3b has accepted a response whose pivot is the model's own text
C19_Witness ==
  /\ stage_ret.op = "s3b"
  /\ ~stage_ret.raised
  /\ "pivot" \in DOMAIN stage_ret.response
  /\ stage_ret.response["pivot"] # PIVOT_LINE
  /\ narration_script = stage_ret.value

\* C20 as stated: for every duration D and key moment K the clip start is
\* min(max(0, K), max(0, D - 30)), lies in [0, max(0, D - 30)], is
\* max(0, D - 30) whenever K >= D - 30, and is 0 whenever K is missing or is
\* anything but a number
C20_ClipStartAsStated ==
  stage_ret.op = "clamp" =>
    /\ 0 <= stage_ret.start
    /\ stage_ret.start <= Max(0, stage_ret.duration - ClipSeconds)
    /\ stage_ret.key_moment.kind = "number" =>
         /\ stage_ret.start = Min(Max(0, stage_ret.key_moment.val),
                                  Max(0, stage_ret.duration - ClipSeconds))
         /\ stage_ret.key_moment.val >= stage_ret.duration - ClipSeconds
              => stage_ret.start = Max(0, stage_ret.duration - ClipSeconds)
    /\ stage_ret.key_moment.kind # "number" => stage_ret.start = 0

\* C20, amended: the same for a K that is a number; the clip start is 0 when
\* K is missing, null, or a value float() rejects; a string that float()
\* parses, and true or false, are used as the number they convert to
C20_ClipStart ==
  stage_ret.op = "clamp" =>
    /\ 0 <= stage_ret.start
    /\ stage_ret.start <= Max(0, stage_ret.duration - ClipSeconds)
    /\ stage_ret.key_moment.kind \in {"number", "numeric_string", "bool"} =>
         /\ stage_ret.start = Min(Max(0, stage_ret.key_moment.val),
                                  Max(0, stage_ret.duration - ClipSeconds))
         /\ stage_ret.key_moment.val >= stage_ret.duration - ClipSeconds
              => stage_ret.start = Max(0, stage_ret.duration - ClipSeconds)
    /\ stage_ret.key_moment.kind \in {"missing", "null", "string", "list"}
         => stage_ret.start = 0

\* a key moment at or past D - 30 in a video longer than the clip: the start
\* has been moved back to D - 30
C20_Witness ==
  /\ stage_ret.op = "clamp"
  /\ stage_ret.key_moment.kind = "number"
  /\ stage_ret.duration > ClipSeconds
  /\ stage_ret.key_moment.val > stage_ret.duration - ClipSeconds
  /\ stage_ret.start = stage_ret.duration - ClipSeconds

\* C21: a step of stage 0, 1, 2, 3b or 4 inserts no chat message and neither
\* creates nor modifies a LearnerState row; only stage 3a does
C21_OnlyStage3aSideEffects ==
  [][\A r \in Runs :
       (pc'[r] # pc[r] /\ StepAt(r) \in {"s0", "s1", "s2", "s3b", "s4"})
         => /\ messages' = messages
            /\ learner_rows' = learner_rows
            /\ session_summaries' = session_summaries]_vars

\* C22: a step of stage 4 leaves `status` and `pipeline_error` as they are
\* and sets no Session field but the coaching-video path; a session becomes
\* "completed" only by the mark-completed step of a run whose stage 4 has
\* returned
C22_Stage4LeavesStatus ==
  [][/\ \A r \in Runs :
          (pc'[r] # pc[r] /\ StepAt(r) = "s4")
            => /\ status' = status
               /\ pipeline_error' = pipeline_error
               /\ \A s \in Sessions :
                    outputs'[s] \ outputs[s] \subseteq {"coaching_video_gcs_path"}
     /\ \A s \in Sessions :
          (status'[s] = "completed" /\ status[s] # "completed")
            => \E r \in Runs : /\ pc[r] = "mc"
                               /\ pc'[r] = "returned"
                               /\ Row(r) = s
                               /\ "s4" \in StepsDone(r)]_vars

\* stage 4 has returned and persisted the video path, and the session is
\* still "text_ready", the mark-completed step not having run
C22_Witness ==
  \E r \in Runs :
    /\ pc[r] = "mc"
    /\ "s4" \in StepsDone(r)
    /\ "coaching_video_gcs_path" \in outputs[Row(r)]
    /\ status[Row(r)] = "text_ready"

\* C29: the Session write of a stage is its last action: once an execution
\* of a stage has written the stage's output field, it does nothing but
\* return; it posts no message, writes no LearnerState and does not raise
C29_SessionWriteLast ==
  [][\A r \in Runs :
       (/\ pc'[r] # pc[r]
        /\ StepAt(r) \in SixStages
        /\ StageFields(StepAt(r), Row(r)) # {}
        /\ StageFields(StepAt(r), Row(r)) \subseteq wrote[r])
         => /\ pc'[r] = NextStep(StepAt(r))
            /\ messages' = messages
            /\ learner_rows' = learner_rows
            /\ session_summaries' = session_summaries]_vars

C30_NoLockAcrossExternalCall ==
  /\ \A s \in Sessions : rowlock[s] # 0 => pc[rowlock[s]] = "gate_locked"
  /\ \A u \in Users : lslock[u] # 0 => pc[lslock[u]] = "s3a_locked"
  /\ \A r \in Runs :
       pc[r] \in ExternalCallPcs
         => /\ \A s \in Sessions : rowlock[s] # r
            /\ \A u \in Users : lslock[u] # r

\* one run waits for the LLM in stage 3a while another run holds the
\* LearnerState row of the same user for its write
C30_Witness ==
  \E r, q \in Runs :
    /\ r # q
    /\ pc[r] = "s3a_run"
    /\ pc[q] = "s3a_locked"
    /\ lslock[session_user_id[Row(q)]] = q
    /\ session_user_id[Row(r)] = session_user_id[Row(q)]

\* C23: stage 0 returns the empty result and writes nothing exactly when the
\* session has neither an audio path nor a transcript; with a transcript and
\* no audio it returns that transcript and persists structured_input
C23_Stage0TextPath ==
  (memo_ret.op = "run_voice_memo" /\ ~memo_ret.raised)
    => /\ (memo_ret.voice_transcript = "" /\ ~memo_ret.wrote)
            <=> (/\ memo_ret.before.voice_memo_url = NoneVal
                 /\ memo_ret.before.voice_transcript = "")
       /\ (/\ memo_ret.before.voice_memo_url = NoneVal
           /\ memo_ret.before.voice_transcript # "")
            => /\ memo_ret.voice_transcript = memo_ret.before.voice_transcript
               /\ memo_ret.wrote
               /\ memo.structured_input # "null"

\* C26: a session never has both a voice-memo audio path and a typed memo
\* text
C26_MemoFieldsExclusive ==
  ~(memo.voice_memo_url # NoneVal /\ memo.voice_transcript \in TypedTexts)

DistinctNumbers(rows) ==
  \A i, j \in 1..Len(rows) : i # j => rows[i] # rows[j]

\* C27: a dish other than free has at most 3 sessions, numbered distinctly in
\* 1..3, whatever the interleaving of the create-session requests; the numbers
\* of the free dish stay distinct; a request answered 409 lost its number to a
\* committed row, and a request answered 400 found three rows
C27_SessionNumbers ==
  /\ \A d \in Dishes \ {"free"} :
       /\ Len(created[d]) <= 3
       /\ \A i \in 1..Len(created[d]) : created[d][i] \in 1..3
  /\ \A d \in Dishes : DistinctNumbers(created[d])
  /\ \A q \in Requests :
       /\ req[q].code = 409
            => SessionInsertConflicts(created[req[q].dish], req[q].session_number)
       /\ req[q].code = 400
            => req[q].dish # "free" /\ Len(created[req[q].dish]) = 3

\* three sessions of the limited dish exist, one request lost a race (409),
\* one more was refused (400), and the free dish has more than three sessions
C27_Witness ==
  /\ Len(created["regular"]) = 3
  /\ \E q \in Requests : req[q].dish = "regular" /\ req[q].code = 409
  /\ \E q \in Requests : req[q].code = 400

\* C28: whatever the number and interleaving of the deliveries, at most one
\* User exists, with one LearnerState and two chat rooms per User, and exactly
\* one once a delivery of a user.created event has returned ok; at most one
\* delivery per svix-id returns ok; a delivery answered already_processed has
\* a recorded id and created nothing; an id is recorded only by a validly
\* signed delivery that returned ok
C28_WebhookIdempotent ==
  /\ accounts.users <= 1
  /\ accounts.learner_states = accounts.users
  /\ accounts.chat_rooms = 2 * accounts.users
  /\ (\E d \in Deliveries :
        delivery[d].ret = "ok" /\ PayloadComplete(delivery[d].svix_id))
       => accounts.users = 1
  /\ \A d, e \in Deliveries :
       (/\ d # e
        /\ delivery[d].svix_id = delivery[e].svix_id
        /\ delivery[d].ret = "ok")
         => delivery[e].ret # "ok"
  /\ \A d \in Deliveries :
       /\ delivery[d].ret = "already_processed"
            => /\ delivery[d].svix_id \in webhook_events
               /\ ~delivery[d].created_user
       /\ (delivery[d].pc # "idle" /\ ~delivery[d].valid)
            => /\ delivery[d].ret = "400"
               /\ ~delivery[d].event_flushed
  /\ \A id \in webhook_events :
       \E d \in Deliveries :
         delivery[d].valid /\ delivery[d].svix_id = id /\ delivery[d].ret = "ok"

\* one delivery created the user, a second one with the same svix-id was
\* answered already_processed, and a third one with a bad signature was
\* refused without its id being recorded
C28_Witness ==
  /\ accounts.users = 1
  /\ \E d, e \in Deliveries :
       /\ delivery[d].created_user
       /\ delivery[e].ret = "already_processed"
       /\ delivery[e].svix_id = delivery[d].svix_id
  /\ \E d \in Deliveries :
       delivery[d].ret = "400" /\ delivery[d].svix_id \notin webhook_events

\* C34: a gate call that returns True changes the status of its session and
\* nothing else in the database: pipeline_error and the stage outputs of
\* every session keep their values, and no other row changes status
C34_GateChangesOnlyStatus ==
  [][\A r \in Runs :
       (gateRes[r] # "true" /\ gateRes'[r] = "true")
         => /\ pipeline_error' = pipeline_error
            /\ outputs' = outputs
            /\ status' = [status EXCEPT ![Row(r)] = "processing"]
            /\ UNCHANGED <<messages, learner_rows, session_summaries>>]_vars

\* a session re-entered from "failed" is "processing" with the error text
\* and an output of the previous run
C34_Witness ==
  \E r \in Runs :
    /\ pc[r] = "s0"
    /\ status[Row(r)] = "processing"
    /\ pipeline_error[Row(r)] # ""
    /\ outputs[Row(r)] # {}

\* C35: a session whose status is "completed" has video_analysis,
\* coaching_text, narration_script and the coaching-video path populated and
\* an empty pipeline_error
C35_CompletedMeansPopulated ==
  \A s \in Sessions :
    status[s] = "completed"
      => /\ {"video_analysis", "coaching_text", "narration_script",
             "coaching_video_gcs_path"} \subseteq outputs[s]
         /\ pipeline_error[s] = ""

\* a session completed by a run that started from "failed": the error text of
\* the earlier run was there while the run was under way and is gone
C35_Witness ==
  \E s \in Sessions, r \in Runs :
    /\ status[s] = "completed"
    /\ pc[r] = "returned" /\ HasRow(r) /\ Row(r) = s
    /\ Len(done[r]) = Len(StepOrder) + 1
    /\ \E q \in Runs \ {r} : failedAt[q] # "none" /\ HasRow(q) /\ Row(q) = s

\* C31: when an execution of stage 1 that uploaded the video to the AI file
\* service has ended (success, generation error, remote state FAILED or
\* polling timeout), the remote file has been deleted exactly once
C31_RemoteFileDeletedOnce ==
  (va.pc = "done" /\ va.uploaded) => va.deletes = 1

\* the count of the entry of recurring_mistakes with this text, 0 without one
MistakeCount(mistakes, text) ==
  IF \E i \in 1..Len(mistakes) : mistakes[i].text = text
  THEN mistakes[CHOOSE i \in 1..Len(mistakes) : mistakes[i].text = text].count
  ELSE 0

\* the executions of stage 3a under way for session s
ExecsOf(s) ==
  {e \in Execs : ex[e].pc \in {"generated", "locked", "committed"} /\ ex[e].session = s}

\* C32: no LearnerState update is lost, however the executions of stage 3a
\* for the sessions of a user overlap: every session whose write committed
\* has its summary, and every diagnosis is counted once for each session that
\* contributed it
C32_NoLostUpdate ==
  /\ \A s \in Sessions :
       contributed[s].writes > 0 => AlreadyProcessed(ls.session_summaries, s)
  /\ \A d \in Diagnoses \ {""} :
       MistakeCount(ls.recurring_mistakes, d) =
         Cardinality({s \in Sessions :
                        contributed[s].changes > 0 /\ contributed[s].text = d})

\* two executions for different sessions, both of which took their snapshot
\* of the empty row before either wrote, have both committed
C32_Witness ==
  \E d, e \in Execs :
    /\ ex[d].pc = "committed" /\ ex[e].pc = "committed"
    /\ ex[d].session # ex[e].session
    /\ ex[d].ls_snapshot = NewLearnerState /\ ex[e].ls_snapshot = NewLearnerState
    /\ Len(ls.session_summaries) = 2
    /\ MistakeCount(ls.recurring_mistakes, "d1") = 2

\* C33: skills_acquired and skills_developing contain no skill twice
C33_SkillListsAreSets ==
  /\ \A i, j \in 1..Len(ls.skills_developing) :
       i # j => ls.skills_developing[i] # ls.skills_developing[j]
  /\ \A i, j \in 1..Len(ls.skills_acquired) :
       i # j => ls.skills_acquired[i] # ls.skills_acquired[j]

\* stage 3a wrote twice for the first session of a dish, both times with the
\* skill k1, and the skill is listed once
C33_Witness ==
  /\ contributed[1].writes >= 2
  /\ contributed[2].writes = 0
  /\ ls.skills_developing = <<"k1">>

\* C36: a session changes recurring_mistakes at most once, each change is one
\* increment of an entry or one new entry with count 1, and no two entries
\* have the same text
C36_OneMistakeChangePerSession ==
  [][/\ \A s \in Sessions : contributed'[s].changes <= 1
     /\ \A i, j \in 1..Len(ls'.recurring_mistakes) :
          i # j => ls'.recurring_mistakes[i].text # ls'.recurring_mistakes[j].text
     /\ ls'.recurring_mistakes # ls.recurring_mistakes
          => LET old == ls.recurring_mistakes
                 new == ls'.recurring_mistakes
             IN \/ /\ Len(new) = Len(old) + 1
                   /\ SubSeq(new, 1, Len(old)) = old
                   /\ new[Len(new)].count = 1
                \/ /\ Len(new) = Len(old)
                   /\ \E i \in 1..Len(old) :
                        new = [old EXCEPT ![i].count = @ + 1]]_vars

\* stage 3a committed three times for one session, each time with a
\* diagnosis, and the session changed recurring_mistakes once
C36_Witness ==
  \E s \in Sessions :
    /\ contributed[s].writes = 3
    /\ contributed[s].changes = 1
    /\ MistakeCount(ls.recurring_mistakes, "d1") = 1

\* C37: once stage 3a has completed for a session, the summary entry of that
\* session carries the mondaiten and skill of the session's coaching_text
C37_SummaryMatchesCoachingText ==
  \A s \in Sessions :
    (session_coaching[s] # NoCoaching /\ ExecsOf(s) = {})
      => \E i \in 1..Len(ls.session_summaries) :
           /\ ls.session_summaries[i].session_id = s
           /\ ls.session_summaries[i].mondaiten = session_coaching[s].mondaiten
           /\ ls.session_summaries[i].skill = session_coaching[s].skill

\* C38: no skill is in skills_acquired and skills_developing at once, and a
\* skill enters skills_acquired only when a session with session_number >= 2
\* takes it out of skills_developing
C38_AcquiredXorDeveloping ==
  [][/\ \A k \in {r.skill : r \in CoachingResults} :
          ~(InList(ls'.skills_acquired, k) /\ InList(ls'.skills_developing, k))
     /\ \A k \in {r.skill : r \in CoachingResults} :
          (InList(ls'.skills_acquired, k) /\ ~InList(ls.skills_acquired, k))
            => /\ InList(ls.skills_developing, k)
               /\ ~InList(ls'.skills_developing, k)
               /\ \E e \in Execs : /\ ex[e].pc = "locked"
                                   /\ session_numbers[ex[e].session] >= 2]_vars

====
